---- MODULE Spec2Model ----
(***************************************************************************)
(* Model of sympy/core/sets.py: the Set hierarchy (EmptySet, Interval,     *)
(* FiniteSet, SingletonSet, Union) over numeric endpoints and elements.    *)
(* Every constructor and method is an operator computed the way the Python *)
(* computes it; the state machine is a session that builds literals,       *)
(* applies one method to the operands a and b, and may keep the result as  *)
(* the next left operand. A second session, LiteralSpec, draws its         *)
(* literals from a wider range (more endpoints, a Symbol as an element).   *)
(***************************************************************************)
EXTENDS Integers, Sequences, FiniteSets, TLC

\* ------------------------------------------------------------------ bounds
\* the numbers given to the constructors are 0, 1, .. MaxNum
MaxNum == 1
\* longest argument list given to FiniteSet(...)
MaxArgs == 2
\* how many method results may be nested into the left operand
MaxDepth == 1
\* the Intervals whose measure is taken have endpoints 0, 1, .. MaxEnd
MaxEnd == 3
\* re-delegations of one intersect call that are followed before giving up
MaxHops == 4

\* ------------------------------------------------------------ value layer
\* Values are counted in halves, so that a point lies strictly between any
\* two numbers: the number n is 2n, and n + 1/2 is 2n + 1.
\* S.NegativeInfinity and S.Infinity are below and above every point.
NegativeInfinity == -2
Infinity == 2 * (IF MaxEnd > MaxNum THEN MaxEnd ELSE MaxNum) + 2
Numbers == {2 * n : n \in 0 .. MaxNum}
Endpoints == {NegativeInfinity} \cup Numbers \cup {Infinity}
\* the x of "x in s": the numbers, the halves between them, one below, one above
Points == -1 .. Infinity - 1
\* Symbol('x'): an element that is not a number
SymbolX == Infinity + 1
\* el.is_number, el.is_Number
IsNumber(el) == el # SymbolX

\* end - start == 0 (oo - oo and -oo - -oo are nan, which is not 0)
DifferenceIsZero(end, start) ==
    /\ end = start
    /\ end \notin {NegativeInfinity, Infinity}

\* ------------------------------------------------------------- the values
\* Basic.__new__(cls, ...): one record shape for every variant
BasicNew(kind, start, end, left_open, right_open, elements, args) ==
    [kind |-> kind, start |-> start, end |-> end,
     left_open |-> left_open, right_open |-> right_open,
     elements |-> elements, args |-> args]

\* S.EmptySet
EmptySet == BasicNew("EmptySet", 0, 0, FALSE, FALSE, {}, <<>>)

\* a non-Set iterable of sets, as Union(...) accepts it
Iterable(items) == BasicNew("Iterable", 0, 0, FALSE, FALSE, {}, items)

\* isinstance(s, FiniteSet): SingletonSet is a FiniteSet
IsFiniteSetInstance(s) == s.kind \in {"FiniteSet", "SingletonSet"}
\* isinstance(s, Interval): SingletonSet is an Interval
IsIntervalInstance(s) == s.kind \in {"Interval", "SingletonSet"}
IsUnionInstance(s) == s.kind = "Union"
IsEmptySetInstance(s) == s.kind = "EmptySet"

\* SingletonSet.__new__
SingletonSetNew(val) ==
    BasicNew("SingletonSet", val, val, FALSE, FALSE, {val}, <<>>)

\* Interval.__new__ without "make sure infinite interval end points are open"
IntervalNewKeepsFlags(start, end, left_open, right_open) ==
    IF end < start THEN EmptySet
    ELSE IF end = start /\ (left_open \/ right_open) THEN EmptySet
    ELSE IF end = start /\ ~(left_open \/ right_open) THEN SingletonSetNew(end)
    ELSE BasicNew("Interval", start, end, left_open, right_open, {}, <<>>)

\* Interval.__new__
IntervalNew(start, end, left_open, right_open) ==
    IF end < start THEN EmptySet
    ELSE IF end = start /\ (left_open \/ right_open) THEN EmptySet
    ELSE IF end = start /\ ~(left_open \/ right_open) THEN SingletonSetNew(end)
    ELSE BasicNew("Interval", start, end,
                  IF start = NegativeInfinity THEN TRUE ELSE left_open,
                  IF end = Infinity THEN TRUE ELSE right_open,
                  {}, <<>>)

\* the elements of a sequence, as frozenset(args) keeps them
Range(seq) == {seq[k] : k \in 1 .. Len(seq)}

\* FiniteSet.__new__ on an argument list (duplicates are still counted by len)
FiniteSetNew(args) ==
    IF Len(args) = 1 /\ IsNumber(args[1]) THEN SingletonSetNew(args[1])
    ELSE IF Len(args) = 0 THEN EmptySet
    ELSE BasicNew("FiniteSet", 0, 0, FALSE, FALSE, Range(args), <<>>)

\* list(S) in increasing order: sorted(list(self.elements))
RECURSIVE Sorted(_)
Sorted(S) ==
    IF S = {} THEN <<>>
    ELSE LET least == CHOOSE x \in S : \A y \in S : x <= y
         IN  <<least>> \o Sorted(S \ {least})

\* FiniteSet(iterable): the single iterable argument replaces the list
FiniteSetFromIterable(S) == FiniteSetNew(Sorted(S))

\* ------------------------------------------------------------- membership
\* Interval._contains
IntervalContains(self, other) ==
    /\ IF self.left_open THEN other > self.start ELSE other >= self.start
    /\ IF self.right_open THEN other < self.end ELSE other <= self.end

\* FiniteSet._contains
FiniteSetContains(self, other) == other \in self.elements

\* the _contains of a component of a Union (never itself a Union)
ComponentContains(self, other) ==
    IF IsFiniteSetInstance(self) THEN FiniteSetContains(self, other)
    ELSE IF self.kind = "Interval" THEN IntervalContains(self, other)
    ELSE FALSE

\* Union._contains
UnionContains(self, other) ==
    \E k \in 1 .. Len(self.args) : ComponentContains(self.args[k], other)

\* Set.contains / __contains__, dispatched on the variant
Contains(self, other) ==
    IF IsUnionInstance(self) THEN UnionContains(self, other)
    ELSE ComponentContains(self, other)

\* ------------------------------------------------------------------ Union
RECURSIVE UnionNew(_)
RECURSIVE Intersect(_, _)
RECURSIVE Complement(_)

\* Union.__new__, the loop over args: Unions and iterables are appended to
\* the list being walked, EmptySets dropped, the rest put into two buckets
\* (SingletonSet is tested as a FiniteSet first); no variant of the module
\* reaches other_sets here
RECURSIVE Classify(_, _, _, _)
Classify(args, k, intervals, finite_sets) ==
    IF k > Len(args)
    THEN [intervals |-> intervals, finite_sets |-> finite_sets]
    ELSE LET arg == args[k]
         IN  IF IsEmptySetInstance(arg)
             THEN Classify(args, k + 1, intervals, finite_sets)
             ELSE IF IsUnionInstance(arg)
             THEN Classify(args \o arg.args, k + 1, intervals, finite_sets)
             ELSE IF IsFiniteSetInstance(arg)
             THEN Classify(args, k + 1, intervals, Append(finite_sets, arg))
             ELSE IF IsIntervalInstance(arg)
             THEN Classify(args, k + 1, Append(intervals, arg), finite_sets)
             ELSE Classify(args \o arg.args, k + 1, intervals, finite_sets)

\* list.sort(key=lambda i: i.start) is stable: an interval goes after every
\* one whose start is not larger
RECURSIVE InsertByStart(_, _)
InsertByStart(sorted, x) ==
    IF sorted = <<>> THEN <<x>>
    ELSE IF x.start < Head(sorted).start THEN <<x>> \o sorted
    ELSE <<Head(sorted)>> \o InsertByStart(Tail(sorted), x)

RECURSIVE SortByStart(_)
SortByStart(intervals) ==
    IF intervals = <<>> THEN <<>>
    ELSE InsertByStart(SortByStart(SubSeq(intervals, 1, Len(intervals) - 1)),
                       intervals[Len(intervals)])

\* the merge test of the while loop (numeric endpoints are comparable)
ShouldMerge(cur, next) ==
    IF next.start < cur.end THEN TRUE
    ELSE IF next.start = cur.end THEN ~(next.left_open /\ cur.right_open)
    ELSE FALSE

\* the interval the while loop puts in place of cur and next
Merged(cur, next) ==
    LET left_open == IF cur.start = next.start
                     THEN cur.left_open /\ next.left_open
                     ELSE cur.left_open
        right_open == IF cur.end < next.end THEN next.right_open
                      ELSE IF cur.end > next.end THEN cur.right_open
                      ELSE cur.right_open /\ next.right_open
        end == IF cur.end < next.end THEN next.end ELSE cur.end
    IN  IntervalNew(cur.start, end, left_open, right_open)

\* while i < len(intervals) - 1 (i is 1-based here)
RECURSIVE MergePass(_, _)
MergePass(intervals, i) ==
    IF ~(i < Len(intervals)) THEN intervals
    ELSE IF ShouldMerge(intervals[i], intervals[i + 1])
    THEN MergePass(SubSeq(intervals, 1, i - 1)
                     \o <<Merged(intervals[i], intervals[i + 1])>>
                     \o SubSeq(intervals, i + 2, Len(intervals)), i)
    ELSE MergePass(intervals, i + 1)

\* FiniteSet.union with another FiniteSet (the only case sum() meets)
FiniteSetUnion(self, other) ==
    FiniteSetFromIterable(self.elements \cup other.elements)

\* sum(finite_sets[1:], finite_sets[0])
RECURSIVE SumFiniteSets(_, _, _)
SumFiniteSets(finite_sets, k, acc) ==
    IF k > Len(finite_sets) THEN acc
    ELSE SumFiniteSets(finite_sets, k + 1, FiniteSetUnion(acc, finite_sets[k]))

\* the body of "for num, i in enumerate(intervals)" for one interval
CloseBoundary(i, finite_set) ==
    LET closeLeft == IF i.left_open
                     THEN FiniteSetContains(finite_set, i.start) ELSE FALSE
        closeRight == IF i.right_open
                      THEN FiniteSetContains(finite_set, i.end) ELSE FALSE
    IN  IF (closeLeft /\ i.left_open) \/ (closeRight /\ i.right_open)
        THEN IntervalNew(i.start, i.end, ~closeLeft, ~closeRight)
        ELSE i

CloseBoundaries(intervals, finite_set) ==
    [num \in 1 .. Len(intervals) |-> CloseBoundary(intervals[num], finite_set)]

\* FiniteSet(el for el in finite_set
\*           if not el.is_number or not any(el in i for i in intervals))
FiniteComplement(finite_set, intervals) ==
    FiniteSetFromIterable(
        {el \in finite_set.elements :
            \/ ~IsNumber(el)
            \/ ~ \E k \in 1 .. Len(intervals) : IntervalContains(intervals[k], el)})

\* the end of Union.__new__ without the test for a single leftover other set
CollapseIntervalOnly(intervals, other_sets) ==
    IF Len(intervals) = 1 /\ Len(other_sets) = 0 THEN intervals[1]
    ELSE BasicNew("Union", 0, 0, FALSE, FALSE, {}, intervals \o other_sets)

\* the end of Union.__new__: one set left over is returned as it is
Collapse(intervals, other_sets) ==
    IF Len(intervals) = 1 /\ Len(other_sets) = 0 THEN intervals[1]
    ELSE IF Len(intervals) = 0 /\ Len(other_sets) = 1 THEN other_sets[1]
    ELSE BasicNew("Union", 0, 0, FALSE, FALSE, {}, intervals \o other_sets)

\* Union.__new__(cls, *args)
UnionNew(args) ==
    LET buckets == Classify(args, 1, <<>>, <<>>)
        finite_sets == buckets.finite_sets
    IN  IF Len(buckets.intervals) = 0 /\ Len(finite_sets) = 0 THEN EmptySet
        ELSE LET merged == MergePass(SortByStart(buckets.intervals), 1)
             IN  IF Len(finite_sets) > 0
                 THEN LET finite_set == SumFiniteSets(finite_sets, 2, finite_sets[1])
                          intervals == CloseBoundaries(merged, finite_set)
                          finite_complement == FiniteComplement(finite_set, intervals)
                      IN  Collapse(intervals,
                                   IF Cardinality(finite_complement.elements) > 0
                                   THEN <<finite_complement>> ELSE <<>>)
                 ELSE Collapse(merged, <<>>)

\* Set.union / FiniteSet.union, dispatched on self
SetUnion(self, other) ==
    IF IsFiniteSetInstance(self) /\ IsFiniteSetInstance(other)
    THEN FiniteSetUnion(self, other)
    ELSE UnionNew(<<self, other>>)

\* ----------------------------------------------------------- intersection
\* Interval._intersect that takes its own flags where the bounds coincide
IntervalIntersectOwnFlags(self, other) ==
    IF self.start <= other.end /\ other.start <= self.end
    THEN LET start == IF self.start < other.start THEN other.start ELSE self.start
             left_open == IF self.start < other.start THEN other.left_open
                          ELSE self.left_open
             end == IF self.end < other.end THEN self.end
                    ELSE IF self.end > other.end THEN other.end
                    ELSE self.end
             right_open == IF self.end > other.end THEN other.right_open
                           ELSE self.right_open
         IN  IF DifferenceIsZero(end, start) /\ (left_open \/ right_open)
             THEN EmptySet
             ELSE IntervalNew(start, end, left_open, right_open)
    ELSE EmptySet

\* Interval._intersect with another Interval (a SingletonSet is one)
IntervalIntersect(self, other) ==
    IF self.start <= other.end /\ other.start <= self.end
    THEN LET start == IF self.start < other.start THEN other.start ELSE self.start
             left_open == IF self.start < other.start THEN other.left_open
                          ELSE IF self.start > other.start THEN self.left_open
                          ELSE self.left_open \/ other.left_open
             end == IF self.end < other.end THEN self.end
                    ELSE IF self.end > other.end THEN other.end
                    ELSE self.end
             right_open == IF self.end < other.end THEN self.right_open
                           ELSE IF self.end > other.end THEN other.right_open
                           ELSE self.right_open \/ other.right_open
         IN  IF DifferenceIsZero(end, start) /\ (left_open \/ right_open)
             THEN EmptySet
             ELSE IntervalNew(start, end, left_open, right_open)
    ELSE EmptySet

\* FiniteSet._intersect (also SingletonSet's, by method resolution order)
FiniteSetIntersect(self, other) ==
    IF IsFiniteSetInstance(other)
    THEN FiniteSetFromIterable(self.elements \cap other.elements)
    ELSE FiniteSetFromIterable({el \in self.elements : Contains(other, el)})

\* Set.intersect: self._intersect(other), by the variant of self
Intersect(self, other) ==
    IF IsEmptySetInstance(self) THEN EmptySet
    ELSE IF IsFiniteSetInstance(self) THEN FiniteSetIntersect(self, other)
    ELSE IF self.kind = "Interval"
    THEN IF ~IsIntervalInstance(other) THEN Intersect(other, self)
         ELSE IntervalIntersect(self, other)
    ELSE \* Union._intersect
         IF IsIntervalInstance(other)
         THEN UnionNew([k \in 1 .. Len(self.args) |-> Intersect(self.args[k], other)])
         ELSE IF IsFiniteSetInstance(other) THEN FiniteSetIntersect(other, self)
         ELSE IF IsUnionInstance(other)
         THEN UnionNew([k \in 1 .. Len(other.args) |-> Intersect(self, other.args[k])])
         ELSE Intersect(other, self)

\* self._intersect(other) hands the pair over to the other side unless the
\* classes are the same
DelegatesUnlessSameClass(self, other) ==
    IF IsEmptySetInstance(self) THEN FALSE
    ELSE self.kind # other.kind

\* self._intersect(other) hands the pair over to the other side:
\* other.intersect(self) in Interval._intersect and at the end of
\* Union._intersect, other._intersect(self) for a Union and a FiniteSet
Delegates(self, other) ==
    IF IsEmptySetInstance(self) THEN FALSE
    ELSE IF IsFiniteSetInstance(self) THEN FALSE
    ELSE IF self.kind = "Interval" THEN ~IsIntervalInstance(other)
    ELSE IF IsIntervalInstance(other) THEN FALSE
    ELSE IF IsFiniteSetInstance(other) THEN TRUE
    ELSE IF IsUnionInstance(other) THEN FALSE
    ELSE TRUE

\* the largest of a non-empty set of numbers
Largest(S) == CHOOSE x \in S : \A y \in S : y <= x

\* the re-delegations on the longest path of calls below self.intersect(other),
\* n of them made so far; a path is followed for MaxHops of them
RECURSIVE Redelegations(_, _, _)
Redelegations(self, other, n) ==
    IF n >= MaxHops THEN n
    ELSE IF Delegates(self, other) THEN Redelegations(other, self, n + 1)
    ELSE IF IsUnionInstance(self) /\ IsIntervalInstance(other)
    THEN Largest({Redelegations(self.args[k], other, n) : k \in 1 .. Len(self.args)})
    ELSE IF IsUnionInstance(self) /\ IsUnionInstance(other)
    THEN Largest({Redelegations(self, other.args[k], n) : k \in 1 .. Len(other.args)})
    ELSE n

\* ------------------------------------------------------------- complement
\* Interval._complement
IntervalComplement(self) ==
    UnionNew(<<IntervalNew(NegativeInfinity, self.start, TRUE, ~self.left_open),
               IntervalNew(self.end, Infinity, ~self.right_open, TRUE)>>)

\* FiniteSet._complement for numeric elements
FiniteSetComplement(self) ==
    LET sorted_elements == Sorted(self.elements)
        n == Len(sorted_elements)
    IN  UnionNew(<<IntervalNew(NegativeInfinity, sorted_elements[1], TRUE, TRUE)>>
                 \o [k \in 1 .. n - 1 |->
                        IntervalNew(sorted_elements[k], sorted_elements[k + 1], TRUE, TRUE)]
                 \o <<IntervalNew(sorted_elements[n], Infinity, TRUE, TRUE)>>)

\* Union._complement: De Morgan, folded from the first component on
RECURSIVE UnionComplementFold(_, _, _)
UnionComplementFold(args, k, complement) ==
    IF k > Len(args) THEN complement
    ELSE UnionComplementFold(args, k + 1,
                             Intersect(complement, Complement(args[k])))

\* Set.complement, by the variant of self
Complement(self) ==
    IF IsEmptySetInstance(self)
    THEN IntervalNew(NegativeInfinity, Infinity, FALSE, FALSE)
    ELSE IF IsFiniteSetInstance(self) THEN FiniteSetComplement(self)
    ELSE IF self.kind = "Interval" THEN IntervalComplement(self)
    ELSE UnionComplementFold(self.args, 2, Complement(self.args[1]))

\* ------------------------------------------------- difference and subset
\* FiniteSet.__sub__
FiniteSetSub(self, other) ==
    FiniteSetFromIterable({el \in self.elements : ~Contains(other, el)})

\* Set.__sub__ / FiniteSet.__sub__, by the variant of self
Sub(self, other) ==
    IF IsFiniteSetInstance(self) THEN FiniteSetSub(self, other)
    ELSE Intersect(self, Complement(other))

\* FiniteSet.__eq__ that compares the classes and not the elements
FiniteSetEqByClass(self, other) == IsFiniteSetInstance(other)

\* FiniteSet.__eq__
FiniteSetEq(self, other) ==
    IF IsFiniteSetInstance(other) THEN self.elements = other.elements ELSE FALSE

\* ==: FiniteSet.__eq__ when either side is a FiniteSet (a SingletonSet on
\* the right of an Interval is a subclass and answers first), else the
\* structural equality of Basic: same class, equal args
RECURSIVE SetEq(_, _)
SetEq(self, other) ==
    IF IsFiniteSetInstance(self) THEN FiniteSetEq(self, other)
    ELSE IF IsFiniteSetInstance(other) THEN FALSE
    ELSE /\ self.kind = other.kind
         /\ self.start = other.start
         /\ self.end = other.end
         /\ self.left_open = other.left_open
         /\ self.right_open = other.right_open
         /\ Len(self.args) = Len(other.args)
         /\ \A k \in 1 .. Len(self.args) : SetEq(self.args[k], other.args[k])

\* Set.subset: other is a subset of self
Subset(self, other) == SetEq(Intersect(self, other), other)

\* ------------------------------------------------ what complement raises
\* FiniteSet._complement, its first statement: the name NotImpementedError
\* is bound nowhere, so the raise statement itself fails with a NameError
FiniteSetComplementRaises(self) ==
    IF \A el \in self.elements : IsNumber(el) THEN "" ELSE "NameError"

\* the exception that leaves self.complement, "" when it returns
ComplementRaises(self) ==
    IF IsFiniteSetInstance(self) THEN FiniteSetComplementRaises(self)
    ELSE IF IsUnionInstance(self)
    THEN IF \E k \in 1 .. Len(self.args) :
               /\ IsFiniteSetInstance(self.args[k])
               /\ FiniteSetComplementRaises(self.args[k]) # ""
         THEN "NameError" ELSE ""
    ELSE ""

\* ---------------------------------------------------------------- measure
\* x + y where oo + y is oo
Add(x, y) == IF x = Infinity \/ y = Infinity THEN Infinity ELSE x + y

\* Interval._measure: end - start, oo for an unbounded Interval
IntervalMeasure(self) ==
    IF self.start = NegativeInfinity \/ self.end = Infinity THEN Infinity
    ELSE self.end - self.start

\* the measure of a component of a Union: DiscreteSet._measure comes before
\* Interval._measure for a SingletonSet
ComponentMeasure(self) ==
    IF IsFiniteSetInstance(self) THEN 0
    ELSE IF IsEmptySetInstance(self) THEN 0
    ELSE IntervalMeasure(self)

\* Union._measure that keeps the measure of the last component only
UnionMeasureLast(args, k, measure) == ComponentMeasure(args[Len(args)])

\* Union._measure: measure = 0; for set in self.args: measure += set.measure
RECURSIVE UnionMeasureFold(_, _, _)
UnionMeasureFold(args, k, measure) ==
    IF k > Len(args) THEN measure
    ELSE UnionMeasureFold(args, k + 1, Add(measure, ComponentMeasure(args[k])))

\* Set.measure, by the variant of self
Measure(self) ==
    IF IsUnionInstance(self) THEN UnionMeasureFold(self.args, 1, 0)
    ELSE ComponentMeasure(self)

\* ------------------------------------------------------------ inf and sup
\* what reading a property gives
\* nothing read
NoValue == [kind |-> "none", value |-> 0]

\* a number read from a property
NumberValue(n) == [kind |-> "number", value |-> n]

\* a method object read where a value was meant
BoundMethod == [kind |-> "bound method", value |-> 0]

\* an exception of the named class left the call
Raised(name) == [kind |-> name, value |-> 0]

\* Min(x, y) and Max(x, y) of the symbolic builder: the smaller and the
\* larger of two numbers; an argument that is no expression is refused
Min(x, y) ==
    IF x.kind = "number" /\ y.kind = "number"
    THEN NumberValue(IF x.value <= y.value THEN x.value ELSE y.value)
    ELSE Raised("SympifyError")

Max(x, y) ==
    IF x.kind = "number" /\ y.kind = "number"
    THEN NumberValue(IF x.value >= y.value THEN x.value ELSE y.value)
    ELSE Raised("SympifyError")

\* set.inf of a component of a Union: FiniteSet._inf is a plain method, not
\* a property, and comes before Interval's _inf = start for a SingletonSet,
\* so Set.inf returns the method itself; EmptySet has no _inf but Set's
ComponentInf(self) ==
    IF IsFiniteSetInstance(self) THEN BoundMethod
    ELSE IF IsEmptySetInstance(self) THEN Raised("NotImplementedError")
    ELSE NumberValue(self.start)

\* set.sup of a component of a Union
ComponentSup(self) ==
    IF IsFiniteSetInstance(self) THEN BoundMethod
    ELSE IF IsEmptySetInstance(self) THEN Raised("NotImplementedError")
    ELSE NumberValue(self.end)

\* Union._inf: inf = args[0].inf; for set in args[1:]: inf = Min(inf, set.inf)
RECURSIVE UnionInfFold(_, _, _)
UnionInfFold(args, k, inf) ==
    IF k > Len(args) THEN inf
    ELSE UnionInfFold(args, k + 1, Min(inf, ComponentInf(args[k])))

\* Union._sup
RECURSIVE UnionSupFold(_, _, _)
UnionSupFold(args, k, sup) ==
    IF k > Len(args) THEN sup
    ELSE UnionSupFold(args, k + 1, Max(sup, ComponentSup(args[k])))

\* Set.inf, by the variant of self
Inf(self) ==
    IF IsUnionInstance(self) THEN UnionInfFold(self.args, 2, ComponentInf(self.args[1]))
    ELSE ComponentInf(self)

\* Set.sup, by the variant of self
Sup(self) ==
    IF IsUnionInstance(self) THEN UnionSupFold(self.args, 2, ComponentSup(self.args[1]))
    ELSE ComponentSup(self)

\* ---------------------------------------------------------------- session
VARIABLES
    a,      \* left operand: a literal or a kept result
    b,      \* right operand: the last literal built
    res,    \* what the last call returned
    op,     \* the last call
    inp,    \* the arguments of the last constructor call
    truth,  \* what the last subset call returned
    depth,  \* how many method results are nested in a
    val     \* what the last property read gave: a number, or what it raised

vars == <<a, b, res, op, inp, truth, depth, val>>

NoInput ==
    [start |-> 0, end |-> 0, left_open |-> FALSE, right_open |-> FALSE, args |-> <<>>]

\* argument lists of FiniteSet(...): up to MaxArgs numbers, repeats allowed
ArgLists == UNION {[1 .. n -> Numbers] : n \in 0 .. MaxArgs}

Constructors == {"Interval", "FiniteSet"}

\* a literal is written between calls: at the start or once a result is kept
Idle == op \in {"init", "keep"}

Init ==
    /\ a = EmptySet
    /\ b = EmptySet
    /\ res = EmptySet
    /\ op = "init"
    /\ inp = NoInput
    /\ truth = FALSE
    /\ depth = 0
    /\ val = NoValue

\* b = Interval(start, end, left_open, right_open); the literals written do
\* not ask for the one-point set of an infinity
NewInterval ==
    \E start \in Endpoints, end \in Endpoints, left_open \in BOOLEAN, right_open \in BOOLEAN :
        /\ Idle
        /\ start = end => start \in Numbers
        /\ res' = IntervalNew(start, end, left_open, right_open)
        /\ b' = res'
        /\ op' = "Interval"
        /\ inp' = [start |-> start, end |-> end, left_open |-> left_open,
                   right_open |-> right_open, args |-> <<>>]
        /\ truth' = FALSE
        /\ val' = NoValue
        /\ UNCHANGED <<a, depth>>

\* b = FiniteSet(*args)
NewFiniteSet ==
    \E args \in ArgLists :
        /\ Idle
        /\ res' = FiniteSetNew(args)
        /\ b' = res'
        /\ op' = "FiniteSet"
        /\ inp' = [NoInput EXCEPT !.args = args]
        /\ truth' = FALSE
        /\ val' = NoValue
        /\ UNCHANGED <<a, depth>>

\* a = the last result
Keep ==
    /\ op \notin {"init", "keep"}
    /\ op \in Constructors \/ depth < MaxDepth
    /\ a' = res
    /\ depth' = IF op \in Constructors THEN 0 ELSE depth + 1
    /\ op' = "keep"
    /\ inp' = NoInput
    /\ truth' = FALSE
    /\ val' = NoValue
    /\ UNCHANGED <<b, res>>

\* the frame of a call on the operands that also reads a property
CallReading(name, result, answer, value) ==
    /\ res' = result
    /\ op' = name
    /\ inp' = NoInput
    /\ truth' = answer
    /\ val' = value
    /\ UNCHANGED <<a, b, depth>>

\* the frame of a method call on the operands
Call(name, result, answer) == CallReading(name, result, answer, NoValue)

\* a.union(b), a + b
UnionMethod == Call("union", SetUnion(a, b), FALSE)

\* Union(a, b)
UnionCall == Call("Union", UnionNew(<<a, b>>), FALSE)

\* Union([a, b])
UnionOfIterable == Call("UnionOfIterable", UnionNew(<<Iterable(<<a, b>>)>>), FALSE)

\* Union(Union(a, b))
UnionAgain ==
    /\ op \in {"Union", "UnionOfIterable"}
    /\ Call("UnionAgain", UnionNew(<<res>>), FALSE)

\* a.intersect(b)
IntersectMethod ==
    CallReading("intersect", Intersect(a, b), FALSE,
                NumberValue(Redelegations(a, b, 0)))

\* b.intersect(a)
IntersectMethodOfB ==
    CallReading("b.intersect(a)", Intersect(b, a), FALSE,
                NumberValue(Redelegations(b, a, 0)))

\* a.intersect(b.complement)
IntersectComplementOfB ==
    CallReading("a.intersect(b.complement)", Intersect(a, Complement(b)), FALSE,
                NumberValue(Redelegations(a, Complement(b), 0)))

\* a.inf
InfProperty == CallReading("inf", res, FALSE, Inf(a))

\* a.sup
SupProperty == CallReading("sup", res, FALSE, Sup(a))

\* a.complement, ~a, -a
ComplementProperty ==
    IF ComplementRaises(a) # ""
    THEN CallReading("complement raised", res, FALSE, Raised(ComplementRaises(a)))
    ELSE Call("complement", Complement(a), FALSE)

\* a.complement.complement
ComplementAgain ==
    /\ op = "complement"
    /\ Call("complement.complement", Complement(res), FALSE)

\* a - b
SubOperator == Call("sub", Sub(a, b), FALSE)

\* a.subset(b): is b a subset of a
SubsetMethod == Call("a.subset(b)", Intersect(a, b), Subset(a, b))

\* b.subset(a): is a a subset of b
SubsetMethodOfB == Call("b.subset(a)", Intersect(b, a), Subset(b, a))

Next ==
    \/ NewInterval
    \/ NewFiniteSet
    \/ Keep
    \/ UnionMethod
    \/ UnionCall
    \/ UnionOfIterable
    \/ UnionAgain
    \/ IntersectMethod
    \/ IntersectMethodOfB
    \/ IntersectComplementOfB
    \/ ComplementProperty
    \/ ComplementAgain
    \/ SubOperator
    \/ SubsetMethod
    \/ SubsetMethodOfB
    \/ InfProperty
    \/ SupProperty

Spec == Init /\ [][Next]_vars

\* ------------------------------------------------- session over literals
\* A second session, over a wider choice of literals: Intervals with the
\* finite endpoints 0 .. MaxEnd, and FiniteSets that may hold a Symbol.
FiniteEndpoints == {2 * n : n \in 0 .. MaxEnd}

\* argument lists of FiniteSet(...) over the numbers and the Symbol x
SymbolArgLists == UNION {[1 .. n -> Numbers \cup {SymbolX}] : n \in 0 .. MaxArgs}

\* every element of the set is a number
Numeric(s) == \A el \in s.elements : IsNumber(el)

\* b = Interval(start, end, left_open, right_open) with finite endpoints
NewFiniteInterval ==
    \E start \in FiniteEndpoints, end \in FiniteEndpoints,
       left_open \in BOOLEAN, right_open \in BOOLEAN :
        /\ Idle
        /\ res' = IntervalNew(start, end, left_open, right_open)
        /\ b' = res'
        /\ op' = "Interval"
        /\ inp' = [start |-> start, end |-> end, left_open |-> left_open,
                   right_open |-> right_open, args |-> <<>>]
        /\ truth' = FALSE
        /\ val' = NoValue
        /\ UNCHANGED <<a, depth>>

\* b = FiniteSet(*args) where an argument may be Symbol('x')
NewFiniteSetOfSymbols ==
    \E args \in SymbolArgLists :
        /\ Idle
        /\ res' = FiniteSetNew(args)
        /\ b' = res'
        /\ op' = "FiniteSet"
        /\ inp' = [NoInput EXCEPT !.args = args]
        /\ truth' = FALSE
        /\ val' = NoValue
        /\ UNCHANGED <<a, depth>>

\* a.union(b).measure, for sets of numbers
UnionMeasure ==
    /\ Numeric(a) /\ Numeric(b)
    /\ CallReading("union.measure", SetUnion(a, b), FALSE,
                   NumberValue(Measure(SetUnion(a, b))))

LiteralNext ==
    \/ NewFiniteInterval
    \/ NewFiniteSetOfSymbols
    \/ Keep
    \/ UnionMeasure
    \/ ComplementProperty

LiteralSpec == Init /\ [][LiteralNext]_vars

\* ----------------------------------------------------------------- claims
\* the calls that return what the Union constructor built from a and b
UnionCalls == {"union", "Union", "UnionOfIterable"}

\* the components of a value: the args of a Union, else the value itself
Components(s) == IF IsUnionInstance(s) THEN Range(s.args) ELSE {s}

\* every Set value the state holds, with the components of its Unions
Held == Components(a) \cup Components(b) \cup Components(res)

\* C1: a point is in a.union(b), or in Union(a, b), exactly when it is in a
\* or in b.
C1_UnionIsSetUnion ==
    op \in UnionCalls =>
        \A x \in Points : Contains(res, x) <=> (Contains(a, x) \/ Contains(b, x))

\* C2: Union(Union(a, b)) equals Union(a, b): building a Union from an
\* already built Union changes no component, endpoint or flag.
C2_UnionIdempotent ==
    op = "UnionAgain" => SetEq(res, UnionNew(<<a, b>>))

\* C3: s.complement.complement equals s for every Interval and every Union.
C3_ComplementInvolution ==
    (op = "complement.complement" /\ a.kind \in {"Interval", "Union"}) =>
        SetEq(res, a)

\* two Interval components that could still be merged: they overlap, or they
\* touch at a point that one of them holds
Mergeable(c, n) ==
    /\ c.start <= n.start
    /\ \/ n.start < c.end
       \/ n.start = c.end /\ ~(c.right_open /\ n.left_open)

\* C4: in a Union the constructor returned, no two Interval components
\* overlap, and two of them touch only where both are open.
C4_UnionIntervalsDisjoint ==
    \A s \in {a, b, res} :
        IsUnionInstance(s) =>
            \A i, j \in 1 .. Len(s.args) :
                (i # j /\ s.args[i].kind = "Interval" /\ s.args[j].kind = "Interval")
                    => ~Mergeable(s.args[i], s.args[j])

\* one value given back for another: the same elements for a FiniteSet, the
\* same value otherwise
SameSet(s, t) == IF IsFiniteSetInstance(s) THEN FiniteSetEq(s, t) ELSE s = t

\* C5: a Union has at least two components, none of them a Union or the
\* EmptySet and at most one of them a FiniteSet; a single surviving argument
\* is returned as it is, and EmptySet when there is none.
C5_UnionCanonicalForm ==
    /\ \A s \in {a, b, res} :
          IsUnionInstance(s) =>
              /\ Len(s.args) >= 2
              /\ \A k \in 1 .. Len(s.args) :
                    s.args[k].kind \in {"Interval", "FiniteSet", "SingletonSet"}
              /\ Cardinality({k \in 1 .. Len(s.args) : IsFiniteSetInstance(s.args[k])}) <= 1
    /\ op \in {"Union", "UnionOfIterable"} =>
          /\ (a = EmptySet /\ b = EmptySet) => res = EmptySet
          /\ (a = EmptySet /\ ~IsUnionInstance(b)) => SameSet(res, b)
          /\ (b = EmptySet /\ ~IsUnionInstance(a)) => SameSet(res, a)
          /\ res = EmptySet => (a = EmptySet /\ b = EmptySet)

\* a nested Union and a FiniteSet were given and a Union with a FiniteSet
\* component came back
C5_Witness ==
    /\ op = "UnionOfIterable"
    /\ IsUnionInstance(a)
    /\ IsFiniteSetInstance(b)
    /\ IsUnionInstance(res)
    /\ \E k \in 1 .. Len(res.args) : IsFiniteSetInstance(res.args[k])

\* C6: Interval(start, end, left_open, right_open) is EmptySet when end <
\* start or the equal endpoints have an open side, SingletonSet(end) when
\* they are equal and closed, else an Interval with start < end that is open
\* at an infinite endpoint; so no Interval held anywhere has start >= end or
\* a closed infinite endpoint.
C6_IntervalNormalized ==
    /\ op = "Interval" =>
          IF inp.end < inp.start
                \/ (inp.end = inp.start /\ (inp.left_open \/ inp.right_open))
          THEN res = EmptySet
          ELSE IF inp.end = inp.start
          THEN /\ res.kind = "SingletonSet"
               /\ res.elements = {inp.end}
               /\ res.start = inp.end /\ res.end = inp.end
               /\ ~res.left_open /\ ~res.right_open
          ELSE /\ res.kind = "Interval"
               /\ res.start = inp.start /\ res.end = inp.end
               /\ res.left_open = (inp.left_open \/ inp.start = NegativeInfinity)
               /\ res.right_open = (inp.right_open \/ inp.end = Infinity)
    /\ \A s \in Held :
          s.kind = "Interval" =>
              /\ s.start < s.end
              /\ s.start = NegativeInfinity => s.left_open
              /\ s.end = Infinity => s.right_open

\* an Interval asked closed at -oo came back open there
C6_Witness ==
    /\ op = "Interval"
    /\ inp.start = NegativeInfinity /\ ~inp.left_open
    /\ res.kind = "Interval" /\ res.left_open

\* C7: a value of the generic FiniteSet variant never has no element and
\* never exactly one number as its elements.
C7_FiniteSetNeverSingle ==
    \A s \in Held : s.kind = "FiniteSet" => Cardinality(s.elements) >= 2

\* C8: a.intersect(b) equals b.intersect(a) for Intervals a and b (one-point
\* ones included), and the open flag wins where the two bounds coincide.
C8_IntersectCommutes ==
    (op = "intersect" /\ IsIntervalInstance(a) /\ IsIntervalInstance(b)) =>
        /\ res = Intersect(b, a)
        /\ (res.kind = "Interval" /\ a.start = b.start) =>
              res.left_open = (a.left_open \/ b.left_open)
        /\ (res.kind = "Interval" /\ a.end = b.end) =>
              res.right_open = (a.right_open \/ b.right_open)

\* two Intervals with the same start, one of them open there, were
\* intersected
C8_Witness ==
    /\ op = "intersect"
    /\ a.kind = "Interval" /\ b.kind = "Interval"
    /\ a.start = b.start /\ ~a.left_open /\ b.left_open
    /\ res.kind = "Interval" /\ res.left_open

\* C9: a point is in a - b exactly when it is in a and not in b.
C9_SubIsDifference ==
    op = "sub" =>
        \A x \in Points : Contains(res, x) <=> (Contains(a, x) /\ ~Contains(b, x))

\* C10: if b.subset(a) is True, every point of a is a point of b (and the
\* same with a and b exchanged).
C10_SubsetSound ==
    /\ (op = "b.subset(a)" /\ truth) =>
          \A x \in Points : Contains(a, x) => Contains(b, x)
    /\ (op = "a.subset(b)" /\ truth) =>
          \A x \in Points : Contains(b, x) => Contains(a, x)

\* a Union with a FiniteSet component was reported a subset of an Interval
C10_Witness ==
    /\ op = "b.subset(a)" /\ truth
    /\ IsUnionInstance(a) /\ b.kind = "Interval"
    /\ \E k \in 1 .. Len(a.args) : IsFiniteSetInstance(a.args[k])

\* no point is in both sets
Disjoint(s, t) == \A x \in Points : ~(Contains(s, x) /\ Contains(t, x))

\* C11: for Intervals a and b with finite endpoints and no point in common
\* (touching pairs that the constructor merges included),
\* a.union(b).measure is a.measure + b.measure.
C11_MeasureAdditive ==
    (/\ op = "union.measure"
     /\ IsIntervalInstance(a) /\ IsIntervalInstance(b)
     /\ a.start \in FiniteEndpoints /\ a.end \in FiniteEndpoints
     /\ b.start \in FiniteEndpoints /\ b.end \in FiniteEndpoints
     /\ Disjoint(a, b)) =>
        val = NumberValue((a.end - a.start) + (b.end - b.start))

\* the measure was read of two Intervals that touch at a point only one of
\* them holds, and that the constructor merged into one
C11_Witness ==
    /\ op = "union.measure"
    /\ a.kind = "Interval" /\ b.kind = "Interval"
    /\ a.end = b.start /\ a.right_open /\ ~b.left_open
    /\ res.kind = "Interval"
    /\ val = NumberValue(b.end - a.start)

\* C12: the complement of a FiniteSet with an element that is not a number
\* fails with NotImplementedError (the UnsupportedOperation kind) and with
\* nothing else; with numbers only it raises nothing and returns.
C12_ComplementUnsupported ==
    (op \in {"complement", "complement raised"} /\ IsFiniteSetInstance(a)) =>
        IF Numeric(a)
        THEN op = "complement" /\ val = NoValue
        ELSE op = "complement raised" /\ val = Raised("NotImplementedError")

\* the Intervals of Union(a, b) as the merge pass leaves them, before any
\* boundary is closed
IntervalsBeforeClosing ==
    MergePass(SortByStart(Classify(<<a, b>>, 1, <<>>, <<>>).intervals), 1)

\* the elements of the combined FiniteSet of Union(a, b)
CombinedElements ==
    LET finite_sets == Classify(<<a, b>>, 1, <<>>, <<>>).finite_sets
    IN  IF Len(finite_sets) = 0 THEN {}
        ELSE SumFiniteSets(finite_sets, 2, finite_sets[1]).elements

\* the Interval components of a value, in their order
IntervalsOf(s) ==
    IF IsUnionInstance(s) THEN SelectSeq(s.args, LAMBDA c : c.kind = "Interval")
    ELSE IF s.kind = "Interval" THEN <<s>>
    ELSE <<>>

\* C13: closing the boundaries in the Union constructor keeps every Interval
\* and both its endpoints; a boundary is open afterwards exactly when it was
\* open before and its endpoint is not an element of the combined FiniteSet
\* (so a closed boundary stays closed, as in Union([1, 2), {2})).
C13_ClosingFrame ==
    op \in UnionCalls =>
        LET before == IntervalsBeforeClosing
            after == IntervalsOf(res)
        IN  /\ Len(after) = Len(before)
            /\ \A k \in 1 .. Len(before) :
                  k <= Len(after) =>
                    /\ after[k].start = before[k].start
                    /\ after[k].end = before[k].end
                    /\ after[k].left_open =
                          (before[k].left_open /\ before[k].start \notin CombinedElements)
                    /\ after[k].right_open =
                          (before[k].right_open /\ before[k].end \notin CombinedElements)

\* the calls that return an intersection and count its re-delegations
IntersectCalls == {"intersect", "b.intersect(a)", "a.intersect(b.complement)"}

\* the variants of Set
SetKinds == {"EmptySet", "Interval", "SingletonSet", "FiniteSet", "Union"}

\* C14: for every pair of variants, a.intersect(b) comes to an end after
\* finitely many re-delegations to the other side (no path of calls makes
\* MaxHops of them) and returns a Set.
C14_IntersectTerminates ==
    op \in IntersectCalls =>
        /\ val.kind = "number"
        /\ val.value < MaxHops
        /\ res.kind \in SetKinds

\* an Interval handed the pair over to a Union, which answered
C14_Witness ==
    /\ op = "b.intersect(a)"
    /\ b.kind = "Interval" /\ IsUnionInstance(a)
    /\ val = NumberValue(1)
    /\ IsUnionInstance(res)

\* the smallest and the largest of the bounds of the components of a value:
\* the endpoints of an Interval, the elements of a FiniteSet
Bounds(s) ==
    UNION {IF IsFiniteSetInstance(c) THEN c.elements ELSE {c.start, c.end} :
           c \in Components(s)}

Smallest(S) == CHOOSE x \in S : \A y \in S : x <= y

\* C15: for every non-empty value, inf and sup are read as numbers: start
\* and end of an Interval, the smallest and the largest element of a
\* FiniteSet or SingletonSet, and the smallest and the largest of these over
\* the components of a Union, a FiniteSet component included.
C15_InfSupBounds ==
    /\ (op = "inf" /\ ~IsEmptySetInstance(a)) =>
          val = NumberValue(Smallest(Bounds(a)))
    /\ (op = "sup" /\ ~IsEmptySetInstance(a)) =>
          val = NumberValue(Largest(Bounds(a)))

====
